---- MODULE Spec2Model ----
(***************************************************************************)
(* Domain inheritance resolver of ai_conventions/domain_resolver.py.       *)
(*                                                                         *)
(* A text is a sequence of tokens.  The tokens are "---" (the three        *)
(* dashes the loader splits on), "\n" (whitespace), one-line YAML          *)
(* fragments and lines of markdown.  The files of the domains directory    *)
(* are a partial function from paths to texts; the resolver's _cache and   *)
(* _inheritance_map are partial functions from domain names.               *)
(***************************************************************************)
EXTENDS Integers, Sequences, FiniteSets, TLC

VARIABLES
    disk,       \* the files under domains_path: path -> text
    dirOrder,   \* the order in which domains_path.iterdir() lists the subdirectories
    cache,      \* DomainResolver._cache
    imap,       \* DomainResolver._inheritance_map
    ret,        \* outcome of the last call made on the resolver since the files
                \* and the two maps were last changed from outside
    fresh,      \* history: no file was written since _cache was last empty
    writes,     \* history: number of file writes so far
    input,      \* the text handed to resolve_shorthand_syntax
    logFile,    \* .ai-conventions-log.yaml, the learning log
    files,      \* the markdown files that `add` writes learnings to
    now,        \* the clock `add` reads
    prev,       \* history: logFile and files before the last command
    stack       \* the frames of a resolve_domain call that is under way

vars == <<disk, dirOrder, cache, imap, ret, fresh, writes, input, logFile, files,
          now, prev, stack>>

\* the working directory of the commands and the clock
tree == <<logFile, files, now, prev>>

\* the state the resolver's methods do not touch
aside == <<input, tree, stack>>

-----------------------------------------------------------------------------
(* Bounds *)

\* file writes made while a resolver is alive (Spec, SpecTools)
MaxWrites == 1

\* parents declared by all documents together (SpecGraph)
MaxEdges == 4

\* files under the domains directory (SpecFind)
MaxFiles == 4

\* characters of a text given to resolve_shorthand_syntax
MaxLen == 6

\* entries of the learning log
MaxLog == 3

\* seconds of the clock `add` stamps its entries with
MaxTime == 2

-----------------------------------------------------------------------------
(* Texts *)

Names == {"a", "b", "c", "d"}

DELIM == "---"
NL == "\n"

\* "\n\n---\n\n", the literal of resolve_domain's join
SEPARATOR == <<NL, NL, DELIM, NL, NL>>

IsSpace(tok) == tok = NL

RECURSIVE LStrip(_)
LStrip(s) == IF s # <<>> /\ IsSpace(Head(s)) THEN LStrip(Tail(s)) ELSE s

RECURSIVE RStrip(_)
RStrip(s) ==
    IF s # <<>> /\ IsSpace(s[Len(s)]) THEN RStrip(SubSeq(s, 1, Len(s) - 1)) ELSE s

\* str.strip()
Strip(s) == RStrip(LStrip(s))

\* index of the first DELIM of s at or after position i, 0 when there is none
RECURSIVE FindDelim(_, _)
FindDelim(s, i) ==
    IF i > Len(s) THEN 0
    ELSE IF s[i] = DELIM THEN i
    ELSE FindDelim(s, i + 1)

\* content.split('---', 2): at most two splits, so at most three parts
SplitDelim2(s) ==
    LET i == FindDelim(s, 1) IN
    IF i = 0 THEN <<s>>
    ELSE LET j == FindDelim(s, i + 1) IN
         IF j = 0 THEN <<SubSeq(s, 1, i - 1), SubSeq(s, i + 1, Len(s))>>
         ELSE <<SubSeq(s, 1, i - 1), SubSeq(s, i + 1, j - 1), SubSeq(s, j + 1, Len(s))>>

\* content.startswith('---')
StartsWithDelim(s) == s # <<>> /\ s[1] = DELIM

\* sep.join(parts)
RECURSIVE Join(_, _)
Join(sep, parts) ==
    IF parts = <<>> THEN <<>>
    ELSE IF Len(parts) = 1 THEN parts[1]
    ELSE parts[1] \o sep \o Join(sep, Tail(parts))

-----------------------------------------------------------------------------
(* YAML values and yaml.safe_load on the lines of a metadata block *)

YNull == [t |-> "null", s |-> "", l |-> <<>>]
YStr(x) == [t |-> "str", s |-> x, l |-> <<>>]
YInt(x) == [t |-> "int", s |-> x, l |-> <<>>]
YList(items) == [t |-> "list", s |-> "", l |-> items]
YMap(items) == [t |-> "map", s |-> "", l |-> items]

\* The one-line YAML fragments of the model, as they are written in a file
ExtendsScalarLine(n) == "extends: " \o n
ExtendsListLine(n, m) == "extends: [" \o n \o ", " \o m \o "]"
ExtendsOneLine(n) == "extends: [" \o n \o "]"
ExtendsEmptyListLine == "extends: []"
ExtendsNullLine == "extends:"
ExtendsIntLine == "extends: 5"
ExtendsIntListLine == "extends: [1]"
ExtendsMapLine == "extends: {k: v}"
TitleLine == "title: T"
ItemLine == "- item"
CommentLine == "# heading"
\* markdown lines: the heading of domain n, and the heading after an edit
Heading(n) == "# " \o n
Edited(n) == "# " \o n \o " (edited)"
PlainLine == "plain words"
BrokenLine == "extends: [a"

\* What the YAML parser makes of each fragment:
\*   kind "entry" (key: value), "item" (- x), "comment", "broken"
Entry(k, v) == [kind |-> "entry", key |-> k, val |-> v]

LineTable ==
    [tok \in {ExtendsScalarLine(n) : n \in Names} |->
        Entry("extends", YStr(CHOOSE n \in Names : tok = ExtendsScalarLine(n)))]
    @@ [tok \in {ExtendsListLine(n, m) : n \in Names, m \in Names} |->
        LET p == CHOOSE p \in Names \X Names : tok = ExtendsListLine(p[1], p[2])
        IN Entry("extends", YList(<<YStr(p[1]), YStr(p[2])>>))]
    @@ [tok \in {ExtendsOneLine(n) : n \in Names} |->
        Entry("extends", YList(<<YStr(CHOOSE n \in Names : tok = ExtendsOneLine(n))>>))]
    @@ (ExtendsEmptyListLine :> Entry("extends", YList(<<>>)))
    @@ (ExtendsNullLine :> Entry("extends", YNull))
    @@ (ExtendsIntLine :> Entry("extends", YInt("5")))
    @@ (ExtendsIntListLine :> Entry("extends", YList(<<YInt("1")>>)))
    @@ (ExtendsMapLine :> Entry("extends", YMap(<<YStr("v")>>)))
    @@ (TitleLine :> Entry("title", YStr("T")))
    @@ (ItemLine :> [kind |-> "item", key |-> "", val |-> YStr("item")])
    @@ (BrokenLine :> [kind |-> "broken", key |-> "", val |-> YNull])
    @@ [tok \in {NL, CommentLine} \cup {Heading(n) : n \in Names}
                \cup {Edited(n) : n \in Names} |->
        [kind |-> "comment", key |-> "", val |-> YNull]]

\* a line that is none of the fragments is a plain scalar
LineParse(tok) ==
    IF tok \in DOMAIN LineTable THEN LineTable[tok]
    ELSE [kind |-> "scalar", key |-> "", val |-> YStr(tok)]

Kinds(lines) == {LineParse(lines[i]).kind : i \in 1..Len(lines)} \ {"comment"}

\* the value of the last entry for key k (a later duplicate key wins), YNull if none
RECURSIVE LastEntry(_, _)
LastEntry(lines, k) ==
    IF lines = <<>> THEN YNull
    ELSE LET p == LineParse(lines[Len(lines)]) IN
         IF p.kind = "entry" /\ p.key = k THEN p.val
         ELSE LastEntry(SubSeq(lines, 1, Len(lines) - 1), k)

\* yaml.safe_load(parts[1]).  ok = FALSE stands for yaml.YAMLError.
\* t is the Python type of the loaded document: "none", "dict", "list", "str".
YamlLoad(lines) ==
    LET ks == Kinds(lines) IN
    IF "broken" \in ks \/ Cardinality(ks) > 1
    THEN [ok |-> FALSE, t |-> "none", lines |-> <<>>]
    ELSE IF ks = {} THEN [ok |-> TRUE, t |-> "none", lines |-> <<>>]
    ELSE IF ks = {"entry"} THEN [ok |-> TRUE, t |-> "dict", lines |-> lines]
    ELSE IF ks = {"item"} THEN [ok |-> TRUE, t |-> "list", lines |-> lines]
    ELSE [ok |-> TRUE, t |-> "str", lines |-> lines]

-----------------------------------------------------------------------------
(* Files.  A path is <<name>> for <root>/<name>.md and <<dir, name>> for   *)
(* <root>/<dir>/<name>.md; <<dir, "core">> is <root>/<dir>/core.md.        *)

NoPath == <<>>

Exists(d, p) == p \in DOMAIN d

\* the subdirectories iterdir() yields, in the listing order o
SubDirs(d, o) == SelectSeq(o, LAMBDA x : \E p \in DOMAIN d : Len(p) = 2 /\ p[1] = x)

\* the loop over domains_path.iterdir() of _find_domain_file
RECURSIVE FindInSubDirs(_, _, _)
FindInSubDirs(name, d, subs) ==
    IF subs = <<>> THEN NoPath
    ELSE LET subdir == Head(subs) IN
         IF Exists(d, <<subdir, "core">>) /\ subdir = name THEN <<subdir, "core">>
         ELSE IF Exists(d, <<subdir, name>>) THEN <<subdir, name>>
         ELSE FindInSubDirs(name, d, Tail(subs))

\* faulty variant: <root>/<name>.md is tried before <root>/<name>/core.md
FindDomainFileFlatFirst(name, d, o) ==
    IF Exists(d, <<name>>) THEN <<name>>
    ELSE IF Exists(d, <<name, "core">>) THEN <<name, "core">>
    ELSE FindInSubDirs(name, d, SubDirs(d, o))

\* DomainResolver._find_domain_file
FindDomainFile(name, d, o) ==
    IF Exists(d, <<name, "core">>) THEN <<name, "core">>
    ELSE IF Exists(d, <<name>>) THEN <<name>>
    ELSE FindInSubDirs(name, d, SubDirs(d, o))

\* f"# {domain_name} domain\n\n(Domain file not found)"
Placeholder(name) == <<"# " \o name \o " domain", NL, NL, "(Domain file not found)">>

\* frontmatter.get('extends') on a loaded dict
GetExtends(y) == LastEntry(y.lines, "extends")

\* faulty variant: the fallback drops what precedes the last delimiter and strips the rest
WholeTextStripped(content) ==
    LET parts == SplitDelim2(content)
    IN [exc |-> "none", content |-> Strip(parts[Len(parts)]), extends |-> YNull]

\* what _load_domain_file returns when it finds no usable metadata block:
\* the whole text, and None
WholeText(content) == [exc |-> "none", content |-> content, extends |-> YNull]

\* lines 132-148 of _load_domain_file, on the text read from the file.
\* exc = "none": returns (content, extends); otherwise the exception raised.
ParseDocument(content) ==
    LET parts == SplitDelim2(content) IN
    IF StartsWithDelim(content) /\ Len(parts) >= 3
    THEN LET frontmatter == YamlLoad(parts[2])
             main_content == Strip(parts[3])
         IN IF ~frontmatter.ok THEN WholeText(content)
            ELSE IF frontmatter.t # "dict"
            THEN [exc |-> "AttributeError", content |-> <<>>, extends |-> YNull]
            ELSE [exc |-> "none", content |-> main_content,
                  extends |-> GetExtends(frontmatter)]
    ELSE WholeText(content)

\* faulty variant: a file that is not found makes the load fail
LoadDomainFileStrict(name, d, o) ==
    LET domain_path == FindDomainFile(name, d, o) IN
    IF domain_path = NoPath \/ ~Exists(d, domain_path)
    THEN [exc |-> "FileNotFoundError", content |-> <<>>, extends |-> YNull]
    ELSE ParseDocument(d[domain_path])

\* DomainResolver._load_domain_file
LoadDomainFile(name, d, o) ==
    LET domain_path == FindDomainFile(name, d, o) IN
    IF domain_path = NoPath \/ ~Exists(d, domain_path)
    THEN [exc |-> "none", content |-> Placeholder(name), extends |-> YNull]
    ELSE ParseDocument(d[domain_path])

-----------------------------------------------------------------------------
(* DomainResolver.resolve_domain *)

\* Python truth value of the loaded `extends`
Truthy(v) ==
    CASE v.t = "null" -> FALSE
      [] v.t = "str" -> v.s # ""
      [] v.t = "int" -> v.s # "0"
      [] OTHER -> v.l # <<>>

\* faulty variant: a list of parents is walked from its end
ParentsReversed(extends) ==
    IF extends.t = "str" THEN <<extends>>
    ELSE IF extends.t = "list"
    THEN [i \in 1..Len(extends.l) |-> extends.l[Len(extends.l) + 1 - i]]
    ELSE <<>>

\* faulty variant: only a list of parents is resolved, a scalar is passed over
ParentsOfListOnly(extends) ==
    IF extends.t = "list" THEN extends.l ELSE <<>>

\* the parents the two isinstance branches iterate over
ParentsOf(extends) ==
    IF extends.t = "str" THEN <<extends>>
    ELSE IF extends.t = "list" THEN extends.l
    ELSE <<>>

\* faulty variant: the assignment replaces the cache by the one entry
StoreAlone(c, name, text) == (name :> text)

\* faulty variant: the result is returned and not kept
StoreNothing(c, name, text) == c

\* self._cache[domain_name] = result
Store(c, name, text) == (name :> text) @@ c

\* faulty variant: one set is shared by all recursive calls
PassShared(own, afterSiblings) == afterSiblings

\* the set handed to a parent's recursive call: visited.copy(), not what an
\* earlier sibling's call left behind
PassVisited(own, afterSiblings) == own

Returned(c, text, seen) ==
    [kind |-> "ok", cache |-> c, value |-> text, values |-> <<>>, seen |-> seen, at |-> ""]

Raised(c, exc, seen, name) ==
    [kind |-> exc, cache |-> c, value |-> <<>>, values |-> <<>>, seen |-> seen, at |-> name]

\* faulty variant: the cycle is cut and the text collected so far is returned
OnRevisitTruncate(c, visited, name) == Returned(c, <<>>, visited)

\* `if domain_name in visited: raise CircularDependencyError(...)`
OnRevisit(c, visited, name) == Raised(c, "CircularDependencyError", visited, name)

\* faulty variant: the cache is never consulted
CacheNever(name, c) == FALSE

\* `if domain_name in self._cache`
CacheHit(name, c) == name \in DOMAIN c

\* faulty variant: a line that an earlier parent brought in is left out
CombineDistinct(parent_contents, domain_content) ==
    LET all == Join(SEPARATOR, Append(parent_contents, domain_content))
        sep == {SEPARATOR[i] : i \in 1..Len(SEPARATOR)}
        keep == {i \in 1..Len(all) :
                   all[i] \in sep \/ \A j \in 1..(i - 1) : all[j] # all[i]}
        RECURSIVE Kept(_)
        Kept(i) == IF i > Len(all) THEN <<>>
                   ELSE IF i \in keep THEN <<all[i]>> \o Kept(i + 1)
                   ELSE Kept(i + 1)
    IN Kept(1)

\* faulty variant: the domain's own content is put first
CombineOwnFirst(parent_contents, domain_content) ==
    Join(SEPARATOR, <<domain_content>> \o parent_contents)

\* "\n\n---\n\n".join(combined_content), the parents' contents first
Combine(parent_contents, domain_content) ==
    Join(SEPARATOR, Append(parent_contents, domain_content))

\* faulty variant: the cache gets the domain's own content, not the combined one
ToCacheOwn(result, domain_content) == domain_content

\* what line 112 puts in the cache: `self._cache[domain_name] = result`
ToCache(result, domain_content) == result

RECURSIVE ResolveDomain(_, _, _, _, _)
RECURSIVE ResolveParents(_, _, _, _, _, _)

\* resolve_domain(domain_name, visited) on cache c and files d
ResolveDomain(name, visited, c, d, o) ==
    IF name \in visited THEN OnRevisit(c, visited, name)
    ELSE IF CacheHit(name, c) THEN Returned(c, c[name], visited)
    ELSE LET v1 == visited \cup {name}
             f == LoadDomainFile(name, d, o)
         IN IF f.exc # "none" THEN Raised(c, f.exc, v1, name)
            ELSE IF ~Truthy(f.extends)
            THEN Returned(Store(c, name, f.content), f.content, v1)
            ELSE LET r == ResolveParents(ParentsOf(f.extends), v1, v1, c, d, o) IN
                 IF r.kind # "ok" THEN r
                 ELSE LET result == Combine(r.values, f.content)
                      IN Returned(Store(r.cache, name, ToCache(result, f.content)),
                                  result, r.seen)

\* the loop `for parent in extends` (one round for a scalar `extends`); a parent
\* that is not a str raises TypeError when its path is built
ResolveParents(ps, own, cur, c, d, o) ==
    IF ps = <<>>
    THEN [kind |-> "ok", cache |-> c, value |-> <<>>, values |-> <<>>, seen |-> cur, at |-> ""]
    ELSE LET parent == Head(ps)
             r1 == IF parent.t = "str"
                   THEN ResolveDomain(parent.s, PassVisited(own, cur), c, d, o)
                   ELSE Raised(c, "TypeError", own, "")
         IN IF r1.kind # "ok" THEN r1
            ELSE LET rest == ResolveParents(Tail(ps), own, cur \cup r1.seen, r1.cache, d, o)
                 IN IF rest.kind # "ok" THEN rest
                    ELSE [rest EXCEPT !.values = <<r1.value>> \o rest.values]

-----------------------------------------------------------------------------
(* The documents written into the domains directory *)

\* a file with a metadata block: "---\n<meta>\n---\n<body>"
MetaDoc(meta, body) == <<DELIM, NL>> \o meta \o <<NL, DELIM, NL>> \o body

CorePath(n) == <<n, "core">>

\* the names that have files in the specification Spec
SpecNames == {"a", "b", "c"}

\* the texts a domain's core.md holds when the resolver is constructed in Spec:
\* no metadata, a scalar `extends`, or a list `extends`
InitDocs(n) ==
    {<<Heading(n)>>}
    \cup {MetaDoc(<<ExtendsScalarLine(m)>>, <<Heading(n)>>) : m \in SpecNames}
    \cup {MetaDoc(<<ExtendsListLine(p[1], p[2])>>, <<Heading(n)>>) :
             p \in {<<"a", "b">>, <<"b", "a">>}}

\* the texts written to <root>/<n>/core.md afterwards: the same, or an edited body
SpecDocs(n) == InitDocs(n) \cup {<<Edited(n)>>}

\* all injective sequences over S
Perms(S) ==
    {q \in [1..Cardinality(S) -> S] : \A i, j \in 1..Cardinality(S) : q[i] = q[j] => i = j}


\* the orders in which a set of names can be iterated
Orders == [S \in SUBSET Names |-> Perms(S)]

\* the last call's outcome; cold: the call found self._cache empty (and, for
\* validate_all_domains, self._inheritance_map empty too)
NoRet == [op |-> "none", arg |-> "", kind |-> "ok", value |-> <<>>, chain |-> <<>>,
          errors |-> <<>>, cold |-> FALSE]

EmptyMap == <<>>

\* The names of the message f"{' -> '.join(visited)} -> {domain_name}".  visited
\* is a set of str: join iterates it in the order the interpreter's string
\* hashing gives, which differs from run to run, so every order is possible.
Chains(r) ==
    IF r.kind = "CircularDependencyError"
    THEN {q \o <<r.at>> : q \in Orders[r.seen]}
    ELSE {<<>>}

\* the directories holding one core.md per name of a subset of N, each text
\* drawn from Docs(n)
DisksOver(N, Docs(_)) ==
    UNION {{f \in [{CorePath(n) : n \in S} -> UNION {Docs(n) : n \in S}] :
              \A n \in S : f[CorePath(n)] \in Docs(n)} : S \in SUBSET N}

\* a working directory without a learning log and without learnings
NoLog == [exists |-> FALSE, doc |-> <<>>]

NoTree ==
    /\ logFile = NoLog
    /\ files = <<>>
    /\ now = 1
    /\ prev = [logFile |-> NoLog, files |-> <<>>]
    /\ stack = <<>>

\* DomainResolver.__init__ on a directory d
Constructed(d) ==
    /\ disk = d
    /\ dirOrder = <<"a", "b", "c", "d">>
    /\ cache = EmptyMap
    /\ imap = EmptyMap
    /\ ret = NoRet
    /\ fresh = TRUE
    /\ writes = 0
    /\ input = <<>>
    /\ NoTree

Init == \E d \in DisksOver(SpecNames, InitDocs) : Constructed(d)

\* a call resolver.resolve_domain(name) from outside: visited is None
ResolveDomainCall(name) ==
    /\ \E r \in {ResolveDomain(name, {}, cache, disk, dirOrder)} :
         /\ cache' = r.cache
         /\ \E chain \in Chains(r) :
              ret' = [op |-> "resolve_domain", arg |-> name, kind |-> r.kind,
                      value |-> r.value, chain |-> chain, errors |-> <<>>,
                      cold |-> (cache = EmptyMap)]
    /\ UNCHANGED <<disk, dirOrder, imap, fresh, writes, aside>>

\* the stem of a scanned file, or its directory's name for a core.md
DomainNameOf(p) ==
    IF p[Len(p)] # "core" THEN p[Len(p)]
    ELSE IF Len(p) = 2 THEN p[1] ELSE "domains"

\* the domain names the scan over rglob("*.md") loads, README.md skipped
ScannedNames(d) == {DomainNameOf(p) : p \in {q \in DOMAIN d : q[Len(q)] # "README"}}

\* faulty variant: a scalar `extends` is stored as it is
TreeEntryRaw(extends) == extends

\* the value stored for a domain with a truthy `extends`: [extends] for a str,
\* otherwise extends itself
TreeEntry(extends) == IF extends.t = "str" THEN YList(<<extends>>) ELSE extends

\* the map the scan builds from the names in S; loaded[n] is what
\* _load_domain_file(n) returns
TreeOver(S, loaded) ==
    [n \in {m \in S : Truthy(loaded[m].extends)} |-> TreeEntry(loaded[n].extends)]

\* the scan of get_inheritance_tree over the names, in the order rglob yields the
\* files: an exception of _load_domain_file leaves the method and keeps the
\* entries made before it
ScanOutcomes(names, loaded) ==
    LET bad == {n \in names : loaded[n].exc # "none"} IN
    IF bad = {} THEN {[kind |-> "ok", map |-> TreeOver(names, loaded)]}
    ELSE {[kind |-> loaded[n].exc, map |-> TreeOver(S, loaded)] :
            n \in bad, S \in SUBSET (names \ bad)}

\* faulty variant: the map is built anew on every call
TreeOutcomesRebuilt(m, d, o) ==
    ScanOutcomes(ScannedNames(d), [n \in ScannedNames(d) |-> LoadDomainFile(n, d, o)])

\* get_inheritance_tree(): the outcomes [kind, map]; a non-empty map is returned
\* as it is
TreeOutcomes(m, d, o) ==
    IF DOMAIN m # {} THEN {[kind |-> "ok", map |-> m]}
    ELSE ScanOutcomes(ScannedNames(d), [n \in ScannedNames(d) |-> LoadDomainFile(n, d, o)])

\* resolver.get_inheritance_tree()
GetInheritanceTreeCall ==
    /\ \E t \in TreeOutcomes(imap, disk, dirOrder) :
         /\ imap' = t.map
         /\ ret' = [op |-> "get_inheritance_tree", arg |-> "", kind |-> t.kind,
                    value |-> <<>>, chain |-> <<>>, errors |-> <<>>, cold |-> FALSE]
    /\ UNCHANGED <<disk, dirOrder, cache, fresh, writes, aside>>

\* faulty variant: a CircularDependencyError is caught and not recorded
RECURSIVE ValidateLoopSilent(_, _, _, _, _)
ValidateLoopSilent(order, errors, c, d, o) ==
    IF order = <<>> THEN [kind |-> "ok", cache |-> c, errors |-> errors]
    ELSE LET r == ResolveDomain(Head(order), {}, c, d, o) IN
         IF r.kind \in {"ok", "CircularDependencyError"}
         THEN ValidateLoopSilent(Tail(order), errors, r.cache, d, o)
         ELSE [kind |-> r.kind, cache |-> r.cache, errors |-> errors]

\* faulty variant: the loop ends at the first CircularDependencyError
RECURSIVE ValidateLoopFirst(_, _, _, _, _)
ValidateLoopFirst(order, errors, c, d, o) ==
    IF order = <<>> THEN [kind |-> "ok", cache |-> c, errors |-> errors]
    ELSE LET r == ResolveDomain(Head(order), {}, c, d, o) IN
         IF r.kind = "ok" THEN ValidateLoopFirst(Tail(order), errors, r.cache, d, o)
         ELSE IF r.kind = "CircularDependencyError"
         THEN [kind |-> "ok", cache |-> r.cache,
               errors |-> Append(errors, [seen |-> r.seen, at |-> r.at])]
         ELSE [kind |-> r.kind, cache |-> r.cache, errors |-> errors]

\* the loop of validate_all_domains over the names in order: the cache after it,
\* the messages collected (each the set joined and the repeated name), and the
\* exception, if one other than CircularDependencyError ended the loop
RECURSIVE ValidateLoop(_, _, _, _, _)
ValidateLoop(order, errors, c, d, o) ==
    IF order = <<>> THEN [kind |-> "ok", cache |-> c, errors |-> errors]
    ELSE LET r == ResolveDomain(Head(order), {}, c, d, o) IN
         IF r.kind = "ok" THEN ValidateLoop(Tail(order), errors, r.cache, d, o)
         ELSE IF r.kind = "CircularDependencyError"
         THEN ValidateLoop(Tail(order), Append(errors, [seen |-> r.seen, at |-> r.at]),
                           r.cache, d, o)
         ELSE [kind |-> r.kind, cache |-> r.cache, errors |-> errors]

\* resolver.validate_all_domains(); the dict is iterated in insertion order,
\* which is the order rglob yielded the files in
ValidateAllDomainsCall ==
    /\ \E t \in TreeOutcomes(imap, disk, dirOrder) :
         /\ imap' = t.map
         /\ IF t.kind # "ok"
            THEN /\ cache' = cache
                 /\ ret' = [op |-> "validate_all_domains", arg |-> "", kind |-> t.kind,
                            value |-> <<>>, chain |-> <<>>, errors |-> <<>>,
                            cold |-> (cache = EmptyMap /\ imap = EmptyMap)]
            ELSE \E order \in Orders[DOMAIN t.map] :
                   \E v \in {ValidateLoop(order, <<>>, cache, disk, dirOrder)} :
                     /\ cache' = v.cache
                     /\ ret' = [op |-> "validate_all_domains", arg |-> "",
                                kind |-> v.kind, value |-> <<>>, chain |-> <<>>,
                                errors |-> v.errors,
                                cold |-> (cache = EmptyMap /\ imap = EmptyMap)]
    /\ UNCHANGED <<disk, dirOrder, fresh, writes, aside>>

\* path.write_text(text) on a domain's core.md while the resolver is alive
WriteDoc(n, text) ==
    /\ writes < MaxWrites
    /\ ~(Exists(disk, CorePath(n)) /\ disk[CorePath(n)] = text)
    /\ disk' = (CorePath(n) :> text) @@ disk
    /\ fresh' = (DOMAIN cache = {})
    /\ writes' = writes + 1
    /\ ret' = NoRet
    /\ UNCHANGED <<dirOrder, cache, imap, aside>>

\* resolver._cache.clear()
ClearCache ==
    /\ cache # EmptyMap
    /\ cache' = EmptyMap
    /\ fresh' = TRUE
    /\ ret' = NoRet
    /\ UNCHANGED <<disk, dirOrder, imap, writes, aside>>

\* resolver._inheritance_map.clear()
ClearInheritanceMap ==
    /\ imap # EmptyMap
    /\ imap' = EmptyMap
    /\ ret' = NoRet
    /\ UNCHANGED <<disk, dirOrder, cache, fresh, writes, aside>>

\* A resolver whose documents are edited while it is in use
Next ==
    \/ \E n \in SpecNames : ResolveDomainCall(n)
    \/ \E n \in SpecNames : \E text \in SpecDocs(n) : WriteDoc(n, text)
    \/ ClearCache

Spec == Init /\ [][Next]_vars

\* the texts of SpecTools: no metadata, or a scalar `extends`
ToolDocs(n) ==
    {<<Heading(n)>>}
    \cup {MetaDoc(<<ExtendsScalarLine(m)>>, <<Heading(n)>>) : m \in SpecNames}

InitTools == \E d \in DisksOver(SpecNames, ToolDocs) : Constructed(d)

\* The resolver with its validation tooling, documents edited in between
NextTools ==
    \/ \E n \in SpecNames : ResolveDomainCall(n)
    \/ GetInheritanceTreeCall
    \/ ValidateAllDomainsCall
    \/ \E n \in SpecNames : \E text \in ToolDocs(n) : WriteDoc(n, text)
    \/ ClearCache
    \/ ClearInheritanceMap

SpecTools == InitTools /\ [][NextTools]_vars

-----------------------------------------------------------------------------
(* SpecGraph: four domains whose documents stay as they are *)

\* the texts of SpecGraph: no metadata, a scalar `extends`, or a list of two,
\* the parents being other domains
GraphDocs(n) ==
    {<<Heading(n)>>}
    \cup {MetaDoc(<<ExtendsScalarLine(m)>>, <<Heading(n)>>) : m \in Names \ {n}}
    \cup {MetaDoc(<<ExtendsListLine(p[1], p[2])>>, <<Heading(n)>>) :
            p \in {q \in (Names \ {n}) \X (Names \ {n}) : q[1] # q[2]}}

\* the number of parents a text declares
Edges(text) == Len(ParentsOf(ParseDocument(text).extends))

\* the directories with one core.md for every name of the sequence, declaring at
\* most `budget` parents in all
RECURSIVE DisksWithin(_, _)
DisksWithin(names, budget) ==
    IF names = <<>> THEN {<<>>}
    ELSE UNION {{(CorePath(Head(names)) :> t) @@ rest :
                    rest \in DisksWithin(Tail(names), budget - Edges(t))} :
                t \in {u \in GraphDocs(Head(names)) : Edges(u) <= budget}}

InitGraph == \E d \in DisksWithin(<<"a", "b", "c", "d">>, MaxEdges) : Constructed(d)

NextGraph ==
    \/ \E n \in Names : ResolveDomainCall(n)
    \/ ClearCache

SpecGraph == InitGraph /\ [][NextGraph]_vars

-----------------------------------------------------------------------------
(* SpecParse: two domains whose documents take every shape the loader tells  *)
(* apart                                                                     *)

ParseNames == {"a", "b"}

ParseDocs(n) ==
    LET body == <<Heading(n)>> IN
    {   body,
        <<NL, Heading(n), NL>>,
        \* a horizontal rule inside the text
        <<Heading(n), NL, DELIM, NL, PlainLine>>,
        \* a horizontal rule first, and none after it
        <<DELIM, NL, PlainLine, NL, Heading(n)>>,
        \* horizontal rules around a heading
        <<DELIM, NL, CommentLine, NL, DELIM, NL, Heading(n)>>,
        MetaDoc(<<>>, body),
        MetaDoc(<<BrokenLine>>, body),
        MetaDoc(<<TitleLine, NL, PlainLine>>, body),
        MetaDoc(<<PlainLine>>, body),
        MetaDoc(<<ItemLine>>, body),
        MetaDoc(<<TitleLine>>, body),
        MetaDoc(<<ExtendsEmptyListLine>>, body),
        MetaDoc(<<ExtendsNullLine>>, body),
        MetaDoc(<<ExtendsIntLine>>, body),
        MetaDoc(<<ExtendsIntListLine>>, body),
        MetaDoc(<<ExtendsMapLine>>, body) }
    \cup {<<DELIM, NL, ExtendsScalarLine(m), NL, Heading(n)>> : m \in ParseNames}
    \cup {MetaDoc(<<ExtendsScalarLine(m)>>, body) : m \in ParseNames}
    \cup {MetaDoc(<<TitleLine, NL, ExtendsScalarLine(m)>>,
                  <<NL, Heading(n), NL, DELIM, NL, PlainLine, NL>>) : m \in ParseNames}
    \cup {MetaDoc(<<ExtendsOneLine(m)>>, body) : m \in ParseNames}
    \cup {MetaDoc(<<ExtendsListLine(p[1], p[2])>>, body) : p \in ParseNames \X ParseNames}

InitParse == \E d \in DisksOver(ParseNames, ParseDocs) : Constructed(d)

NextParse ==
    \/ \E n \in ParseNames : ResolveDomainCall(n)
    \/ ClearCache

SpecParse == InitParse /\ [][NextParse]_vars

-----------------------------------------------------------------------------
(* SpecScan: the resolver and its validation tooling on documents that stay  *)
(* as they are                                                               *)

InitScan == \E d \in DisksOver(SpecNames, InitDocs) : Constructed(d)

NextScan ==
    \/ \E n \in SpecNames : ResolveDomainCall(n)
    \/ GetInheritanceTreeCall
    \/ ValidateAllDomainsCall
    \/ ClearCache
    \/ ClearInheritanceMap

SpecScan == InitScan /\ [][NextScan]_vars

-----------------------------------------------------------------------------
(* SpecFind: _find_domain_file on directories holding files in every place   *)
(* the lookup tries                                                          *)

FindNames == {"a", "b"}
FindDirs == {"a", "b", "x"}

\* <root>/<dir>/core.md, <root>/<name>.md and <root>/<dir>/<name>.md
FindPaths ==
    {<<dir, "core">> : dir \in FindDirs}
    \cup {<<n>> : n \in FindNames}
    \cup {<<dir, n>> : dir \in FindDirs, n \in FindNames}

\* a resolver on a directory with at most MaxFiles of these files, which
\* iterdir() lists in any order
InitFind ==
    \E P \in {Q \in SUBSET FindPaths : Cardinality(Q) <= MaxFiles} :
      \E o \in Perms(FindDirs) :
        /\ disk = [p \in P |-> <<PlainLine>>]
        /\ dirOrder = o
        /\ cache = EmptyMap
        /\ imap = EmptyMap
        /\ ret = NoRet
        /\ fresh = TRUE
        /\ writes = 0
        /\ input = <<>>
        /\ NoTree

\* a call resolver._find_domain_file(name); value is the path returned,
\* NoPath for None
FindDomainFileCall(name) ==
    /\ ret' = [op |-> "_find_domain_file", arg |-> name, kind |-> "ok",
               value |-> FindDomainFile(name, disk, dirOrder), chain |-> <<>>,
               errors |-> <<>>, cold |-> FALSE]
    /\ UNCHANGED <<disk, dirOrder, cache, imap, fresh, writes, aside>>

NextFind == \E n \in FindNames : FindDomainFileCall(n)

SpecFind == InitFind /\ [][NextFind]_vars

-----------------------------------------------------------------------------
(* resolve_shorthand_syntax.  Here a text is a sequence of characters.  "a"  *)
(* stands for the letters and "_", "1" for the digits, " " for every         *)
(* character that is neither "%" nor of a name.                              *)

Chars == {"%", "a", "-", "1", " "}

\* [a-zA-Z_-]
DomainChars == {"a", "-"}

\* [a-zA-Z0-9_-]
SectionChars == {"a", "1", "-"}

\* \w
WordChars == {"a", "1"}

\* the number of characters of class C that s holds from position j on
RunLen(s, j, C) ==
    CHOOSE k \in 0..Len(s) :
        /\ j + k <= Len(s) + 1
        /\ \A m \in j..(j + k - 1) : s[m] \in C
        /\ (j + k > Len(s) \/ s[j + k] \notin C)

\* (?<!%) before position i
LookbehindOk(s, i) == i = 1 \/ s[i - 1] # "%"

\* (?!%|\w) at position j
LookaheadOk(s, j) == j > Len(s) \/ (s[j] # "%" /\ s[j] \notin WordChars)

\* The ways shorthand_pattern matches at position i: <<d, k>> is a domain of
\* d characters followed by "%" and a section of k characters, or by no
\* section when k = 0.
MatchesAt(s, i) ==
    IF i > Len(s) \/ s[i] # "%" \/ ~LookbehindOk(s, i) THEN {}
    ELSE {dk \in (1..RunLen(s, i + 1, DomainChars)) \X (0..Len(s)) :
            LET p == i + dk[1] + 1
            IN IF dk[2] = 0 THEN LookaheadOk(s, p)
               ELSE /\ p <= Len(s)
                    /\ s[p] = "%"
                    /\ dk[2] <= RunLen(s, p + 1, SectionChars)
                    /\ LookaheadOk(s, p + dk[2] + 1)}

\* The match the regex engine reports: both groups are greedy and the section
\* is tried before its absence, so the engine gives back one character at a
\* time, the section's first and then the domain's, until the lookahead holds.
MatchAt(s, i) ==
    LET M == MatchesAt(s, i)
    IN CHOOSE dk \in M :
         \A o \in M : o[1] < dk[1] \/ (o[1] = dk[1] /\ o[2] <= dk[2])

AT_DOMAINS == <<"@", "d", "o", "m", "a", "i", "n", "s", "/">>
CORE_MD == <<"/", "c", "o", "r", "e", ".", "m", "d">>
DOT_MD == <<".", "m", "d">>

\* faulty variant: the section is dropped
replace_shorthand_core(domain, section) == AT_DOMAINS \o domain \o CORE_MD

\* replace_shorthand(match); section is <<>> when group 2 did not take part
replace_shorthand(domain, section) ==
    IF section # <<>> THEN AT_DOMAINS \o domain \o <<"/">> \o section \o DOT_MD
    ELSE AT_DOMAINS \o domain \o CORE_MD

\* re.sub from position i on: the leftmost match is replaced and the scan goes
\* on behind it; a character no match starts at is copied
RECURSIVE Sub(_, _)
Sub(s, i) ==
    IF i > Len(s) THEN <<>>
    ELSE IF MatchesAt(s, i) = {} THEN <<s[i]>> \o Sub(s, i + 1)
    ELSE LET dk == MatchAt(s, i)
             p == i + dk[1] + 1
             domain == SubSeq(s, i + 1, p - 1)
             section == IF dk[2] = 0 THEN <<>> ELSE SubSeq(s, p + 1, p + dk[2])
             end == IF dk[2] = 0 THEN p ELSE p + dk[2] + 1
         IN replace_shorthand(domain, section) \o Sub(s, end)

\* resolve_shorthand_syntax(content)
ResolveShorthandSyntax(content) == Sub(content, 1)

-----------------------------------------------------------------------------
(* SpecShort: resolve_shorthand_syntax on every text of up to MaxLen         *)
(* characters                                                                *)

RECURSIVE TextsOf(_)
TextsOf(n) ==
    IF n = 0 THEN {<<>>}
    ELSE LET T == TextsOf(n - 1)
         IN T \cup {Append(t, c) : t \in {u \in T : Len(u) = n - 1}, c \in Chars}

InitShort ==
    /\ input \in TextsOf(MaxLen)
    /\ disk = EmptyMap
    /\ dirOrder = <<"a", "b", "c", "d">>
    /\ cache = EmptyMap
    /\ imap = EmptyMap
    /\ ret = NoRet
    /\ fresh = TRUE
    /\ writes = 0
    /\ NoTree

\* a call resolve_shorthand_syntax(input)
ResolveShorthandSyntaxCall ==
    /\ ret' = [op |-> "resolve_shorthand_syntax", arg |-> "", kind |-> "ok",
               value |-> ResolveShorthandSyntax(input), chain |-> <<>>,
               errors |-> <<>>, cold |-> FALSE]
    /\ UNCHANGED <<disk, dirOrder, cache, imap, fresh, writes, aside>>

NextShort == ResolveShorthandSyntaxCall

SpecShort == InitShort /\ [][NextShort]_vars

-----------------------------------------------------------------------------
(* The learning log of commands/add.py and commands/remove.py.  The log file *)
(* is the YAML document yaml.dump wrote: a list of mappings from the entry's *)
(* keys to scalars as written, plain or quoted.  A markdown file is the      *)
(* sequence of the pieces written to it.  auto_sync copies the domains to    *)
(* the providers' directories, which are outside this state.                 *)

Max(a, b) == IF a >= b THEN a ELSE b
Min(a, b) == IF a <= b THEN a ELSE b

\* datetime.now().strftime("%Y-%m-%d %H:%M:%S") at second t of the clock
Stamp(t) == "2024-01-01 10:00:0" \o <<"1", "2", "3", "4", "5", "6", "7", "8", "9">>[t]

\* a Python str
Str(s) == [tag |-> "str", text |-> s]

\* what YAML's resolver makes of a plain scalar
PlainTag(text) ==
    IF text \in {"7"} THEN "int"
    ELSE IF text \in {Stamp(t) : t \in 1..9} THEN "timestamp"
    ELSE "str"

\* yaml.dump of a scalar: a str that would be read back as something else is
\* written in quotes
DumpScalar(v) ==
    [quoted |-> (v.tag = "str" /\ PlainTag(v.text) # "str"), text |-> v.text]

\* yaml.safe_load of a scalar
LoadScalar(w) ==
    [tag |-> IF w.quoted THEN "str" ELSE PlainTag(w.text), text |-> w.text]

\* yaml.dump(logs, f, default_flow_style=False, sort_keys=False)
YamlDump(logs) ==
    [i \in 1..Len(logs) |-> [k \in DOMAIN logs[i] |-> DumpScalar(logs[i][k])]]

\* yaml.safe_load(f) of a log file
SafeLoad(doc) ==
    [i \in 1..Len(doc) |-> [k \in DOMAIN doc[i] |-> LoadScalar(doc[i][k])]]

\* f"{value}" of a loaded scalar
Format(v) == v.text

\* str.title()
Title(s) ==
    CASE s = "git" -> "Git"
      [] s = "python" -> "Python"
      [] s = "core" -> "Core"
      [] OTHER -> s

\* file.endswith(".md"), file.replace('.md', '')
EndsWithMd(file) == file \in {"core.md"}
WithoutMd(file) == IF file = "core.md" THEN "core" ELSE file

\* f"# {domain.title()} - {file.replace('.md', '').title()}\n\n"
FileTitle(domain, file) ==
    "# " \o Title(domain) \o " - " \o Title(WithoutMd(file)) \o "\n\n"

\* f"\n## {timestamp} - {category}\n" f"{text}\n" "\n---\n": what add writes
\* for a learning and what remove looks for
EntryPattern(timestamp, category, pattern) ==
    "\n## " \o timestamp \o " - " \o category \o "\n" \o pattern \o "\n\n---\n"

\* seq[k:] and seq[:k] of Python, k of either sign
SliceFrom(seq, k) ==
    SubSeq(seq, (IF k < 0 THEN Max(Len(seq) + k, 0) ELSE Min(k, Len(seq))) + 1, Len(seq))
SliceTo(seq, k) ==
    SubSeq(seq, 1, IF k < 0 THEN Max(Len(seq) + k, 0) ELSE Min(k, Len(seq)))

\* the list add_command and remove_command read from the log file
ReadLog(f) == IF f.exists THEN SafeLoad(f.doc) ELSE <<>>

Finished(op, arg, message) ==
    [op |-> op, arg |-> arg, kind |-> "ok", value |-> message, chain |-> <<>>,
     errors |-> <<>>, cold |-> FALSE]

\* faulty variant: the entry is put in front of the list
Prepended(logs, log_entry) == <<log_entry>> \o logs

\* logs.append(log_entry)
Appended(logs, log_entry) == Append(logs, log_entry)

\* ai-conventions add TEXT --domain DOMAIN --file FILE --category CATEGORY
AddCommand(text, domain, fileArg, category) ==
    \E timestamp \in {Stamp(now)},
       file \in {IF ~EndsWithMd(fileArg) THEN fileArg \o ".md" ELSE fileArg},
       logs \in {ReadLog(logFile)} :
      \E target_file \in {"domains/" \o domain \o "/" \o file},
         written \in {EntryPattern(timestamp, category, text)} :
        \E log_entry \in {[timestamp |-> Str(timestamp), domain |-> Str(domain),
                            file |-> Str(file), category |-> Str(category),
                            pattern |-> Str(text), target_file |-> Str(target_file)]} :
          /\ Len(logs) < MaxLog
          /\ files' = IF target_file \in DOMAIN files
                      THEN [files EXCEPT ![target_file] = Append(@, written)]
                      ELSE [p \in DOMAIN files \cup {target_file} |->
                              IF p = target_file
                              THEN <<FileTitle(domain, file), written>>
                              ELSE files[p]]
          /\ logFile' = [exists |-> TRUE, doc |-> YamlDump(Appended(logs, log_entry))]
          /\ prev' = [logFile |-> logFile, files |-> files]
          /\ ret' = Finished("add", <<text, domain, fileArg, category>>, "added")
          /\ UNCHANGED <<disk, dirOrder, cache, imap, fresh, writes, input, now, stack>>

\* faulty variant: the entries are cut from the front of the list
RemainingFromFront(logs, count) == SliceFrom(logs, count)

\* remaining_logs = logs[:-count]
Remaining(logs, count) == SliceTo(logs, 0 - count)

\* removed_entries = logs[-count:]
Removed(logs, count) == SliceFrom(logs, 0 - count)

\* content.replace(entry_pattern, "")
Replaced(content, entry_pattern) ==
    SelectSeq(content, LAMBDA piece : piece # entry_pattern)

\* the loop over removed_entries, from entry i on
RECURSIVE RemoveContent(_, _, _)
RemoveContent(fs, removed_entries, i) ==
    IF i > Len(removed_entries) THEN fs
    ELSE LET entry == removed_entries[i]
             target_file == Format(entry.target_file)
             entry_pattern == EntryPattern(Format(entry.timestamp),
                                           Format(entry.category),
                                           Format(entry.pattern))
             hit == /\ target_file \in DOMAIN fs
                    /\ \E j \in 1..Len(fs[target_file]) :
                           fs[target_file][j] = entry_pattern
         IN RemoveContent(IF hit
                          THEN [fs EXCEPT ![target_file] = Replaced(@, entry_pattern)]
                          ELSE fs,
                          removed_entries, i + 1)

\* faulty variant: only a count below zero is turned down
NotPositiveBelowZero(count) == count < 0

\* if count <= 0
NotPositive(count) == count <= 0

\* faulty variant: a count beyond the log wraps around its length
ClampCountWrapped(given, n) == IF given > n /\ n > 0 THEN given % n ELSE given

\* if count > len(logs): count = len(logs)
ClampCount(given, n) == IF given > n THEN n ELSE given

\* ai-conventions remove [COUNT]; args is <<>> when COUNT is left out
RemoveCommand(args) ==
    \E given \in {IF args = <<>> THEN 1 ELSE args[1]}, logs \in {ReadLog(logFile)} :
      \E count \in {ClampCount(given, Len(logs))} :
        /\ prev' = [logFile |-> logFile, files |-> files]
        /\ UNCHANGED <<disk, dirOrder, cache, imap, fresh, writes, input, now, stack>>
        /\ IF ~logFile.exists
           THEN /\ ret' = Finished("remove", args, "Nothing to remove - no learning log found")
                /\ UNCHANGED <<logFile, files>>
           ELSE IF logs = <<>>
           THEN /\ ret' = Finished("remove", args, "Nothing to remove - learning log is empty")
                /\ UNCHANGED <<logFile, files>>
           ELSE IF NotPositive(given)
           THEN /\ ret' = Finished("remove", args, "Count must be positive")
                /\ UNCHANGED <<logFile, files>>
           ELSE /\ logFile' = [exists |-> TRUE, doc |-> YamlDump(Remaining(logs, count))]
                /\ files' = RemoveContent(files, Removed(logs, count), 1)
                /\ ret' = Finished("remove", args, "Removed")

\* a second passes
Tick ==
    /\ now < MaxTime
    /\ now' = now + 1
    /\ UNCHANGED <<disk, dirOrder, cache, imap, ret, fresh, writes, input, logFile,
                   files, prev, stack>>

-----------------------------------------------------------------------------
(* SpecLog: add and remove in a working directory that starts without a log  *)

\* the learnings added: a text for one domain, and for another domain a text
\* that YAML would read as a number
Learnings == {[text |-> "p", domain |-> "git"], [text |-> "7", domain |-> "python"]}
FileArgs == {"core", "core.md"}
Categories == {"pattern"}
CountArgs == {<<>>} \cup {<<n>> : n \in (0 - 1)..(MaxLog + 1)}

InitLog == Constructed(EmptyMap)

NextLog ==
    \/ \E l \in Learnings, fileArg \in FileArgs, category \in Categories :
          AddCommand(l.text, l.domain, fileArg, category)
    \/ \E args \in CountArgs : RemoveCommand(args)
    \/ Tick

SpecLog == InitLog /\ [][NextLog]_vars

-----------------------------------------------------------------------------
(* resolve_domain frame by frame.  The stack holds one frame for every call  *)
(* of resolve_domain that has been made and has not returned; a frame is at  *)
(* "enter" before its first line ran and at "loop" while it goes through its *)
(* parents.                                                                  *)

Frame(pc, name, visited, rest, got, content) ==
    [pc |-> pc, name |-> name, visited |-> visited, rest |-> rest, got |-> got,
     content |-> content]

\* visited.add(domain_name)
Visit(visited, name) == visited \cup {name}

\* the innermost call returns text: to its caller's combined_content, or to
\* the caller of the outermost call
Deliver(text) ==
    \E below \in {SubSeq(stack, 1, Len(stack) - 1)} :
      IF below = <<>>
      THEN /\ stack' = <<>>
           /\ ret' = [op |-> "resolve_domain", arg |-> stack[1].name, kind |-> "ok",
                      value |-> text, chain |-> <<>>, errors |-> <<>>, cold |-> FALSE]
      ELSE /\ stack' = [below EXCEPT ![Len(below)].got = Append(@, text)]
           /\ ret' = ret

\* the innermost call raises: no frame catches, so all of them are left
Unwind(exc, seen, at) ==
    /\ stack' = <<>>
    /\ \E chain \in Chains([kind |-> exc, seen |-> seen, at |-> at]) :
         ret' = [op |-> "resolve_domain", arg |-> stack[1].name, kind |-> exc,
                 value |-> <<>>, chain |-> chain, errors |-> <<>>, cold |-> FALSE]

\* resolver.resolve_domain(name) is called from outside
BeginResolve(name) ==
    /\ stack = <<>>
    /\ stack' = <<Frame("enter", name, {}, <<>>, <<>>, <<>>)>>
    /\ ret' = NoRet
    /\ UNCHANGED <<disk, dirOrder, cache, imap, fresh, writes, input, tree>>

\* the innermost frame runs from its first line to its return, its raise or
\* its first recursive call
EnterStep ==
    /\ stack # <<>>
    /\ \E top \in {stack[Len(stack)]} :
         /\ top.pc = "enter"
         /\ IF top.name \in top.visited
            THEN Unwind("CircularDependencyError", top.visited, top.name) /\ cache' = cache
            ELSE IF CacheHit(top.name, cache)
            THEN Deliver(cache[top.name]) /\ cache' = cache
            ELSE \E f \in {LoadDomainFile(top.name, disk, dirOrder)},
                    v1 \in {Visit(top.visited, top.name)} :
                   IF f.exc # "none"
                   THEN Unwind(f.exc, v1, top.name) /\ cache' = cache
                   ELSE IF ~Truthy(f.extends)
                   THEN Deliver(f.content) /\ cache' = Store(cache, top.name, f.content)
                   ELSE /\ stack' = [stack EXCEPT ![Len(stack)] =
                                       Frame("loop", top.name, v1, ParentsOf(f.extends),
                                             <<>>, f.content)]
                        /\ ret' = ret
                        /\ cache' = cache
    /\ UNCHANGED <<disk, dirOrder, imap, fresh, writes, input, tree>>

\* the innermost frame calls resolve_domain for its next parent, or has gone
\* through them all, joins, stores and returns
LoopStep ==
    /\ stack # <<>>
    /\ \E top \in {stack[Len(stack)]} :
         /\ top.pc = "loop"
         /\ IF top.rest = <<>>
            THEN \E result \in {Combine(top.got, top.content)} :
                   /\ Deliver(result)
                   /\ cache' = Store(cache, top.name, ToCache(result, top.content))
            ELSE IF Head(top.rest).t # "str"
            THEN Unwind("TypeError", top.visited, "") /\ cache' = cache
            ELSE /\ stack' = Append([stack EXCEPT ![Len(stack)].rest = Tail(@)],
                                    Frame("enter", Head(top.rest).s,
                                          PassVisited(top.visited, top.visited),
                                          <<>>, <<>>, <<>>))
                 /\ ret' = ret
                 /\ cache' = cache
    /\ UNCHANGED <<disk, dirOrder, imap, fresh, writes, input, tree>>

RunStep == EnterStep \/ LoopStep

-----------------------------------------------------------------------------
(* SpecRun: resolve_domain run frame by frame on documents that stay as they *)
(* are, among them documents with an empty metadata block                    *)

RunDocs(n) == InitDocs(n) \cup {MetaDoc(<<>>, <<Heading(n)>>)}

InitRun == \E d \in DisksOver(SpecNames, RunDocs) : Constructed(d)

NextRun ==
    \/ \E n \in SpecNames : BeginResolve(n)
    \/ EnterStep
    \/ LoopStep

\* a call that can take a step does
SpecRun == InitRun /\ [][NextRun]_vars /\ WF_vars(RunStep)

-----------------------------------------------------------------------------
(* The inheritance graph the documents on disk declare *)

\* the names a domain's document declares in `extends`, in declared order
DeclaredList(n, d, o) ==
    LET f == LoadDomainFile(n, d, o) IN
    IF f.exc # "none" THEN <<>>
    ELSE IF f.extends.t = "str" /\ f.extends.s # "" THEN <<f.extends.s>>
    ELSE IF f.extends.t = "list"
    THEN LET l == SelectSeq(f.extends.l, LAMBDA x : x.t = "str")
         IN [i \in 1..Len(l) |-> l[i].s]
    ELSE <<>>

DeclaredParents(n, d, o) ==
    LET l == DeclaredList(n, d, o) IN {l[i] : i \in 1..Len(l)}

RECURSIVE UpClosure(_, _, _)
UpClosure(S, d, o) ==
    LET T == S \cup UNION {DeclaredParents(n, d, o) : n \in S}
    IN IF T = S THEN S ELSE UpClosure(T, d, o)

\* the direct and transitive parents of n
Ancestors(n, d, o) == UpClosure(DeclaredParents(n, d, o), d, o)

\* n is, directly or transitively, its own ancestor
OwnAncestor(n) == n \in Ancestors(n, disk, dirOrder)

\* n lies on a cycle or inherits from a domain that does
ReachesCycle(n) ==
    \E m \in {n} \cup Ancestors(n, disk, dirOrder) : m \in Ancestors(m, disk, dirOrder)

\* no document declares a cycle
Acyclic == \A n \in Names : ~OwnAncestor(n)

IsResolve == ret.op = "resolve_domain"

\* the text of §4.3 without its cache: every parent's composition in declared
\* order, then the domain's own body (defined where n reaches no cycle)
RECURSIVE Composition(_, _, _)
Composition(n, d, o) ==
    LET ps == DeclaredList(n, d, o) IN
    Join(SEPARATOR, [i \in 1..Len(ps) |-> Composition(ps[i], d, o)]
                    \o <<LoadDomainFile(n, d, o).content>>)

\* text t occurs in v at position i
OccursAt(t, v, i) ==
    i >= 1 /\ i + Len(t) - 1 <= Len(v) /\ SubSeq(v, i, i + Len(t) - 1) = t

-----------------------------------------------------------------------------
(* C1: resolve_domain(name) raises CircularDependencyError whenever name is  *)
(* its own ancestor in the documents on disk, provided no document was       *)
(* written since the cache was last empty.                                   *)
C1_CycleRaises ==
    (IsResolve /\ fresh /\ OwnAncestor(ret.arg)) => ret.kind = "CircularDependencyError"

\* C1 as stated: whatever the cache holds
C1_AsStated ==
    (IsResolve /\ OwnAncestor(ret.arg)) => ret.kind = "CircularDependencyError"

\* a cycle through all three domains was reported
C1_Witness ==
    /\ IsResolve /\ fresh /\ OwnAncestor(ret.arg)
    /\ Cardinality(Ancestors(ret.arg, disk, dirOrder)) = 3
    /\ ret.kind = "CircularDependencyError"

-----------------------------------------------------------------------------
\* what resolve_domain(n) returns on a resolver constructed on the files now
FreshValue(n) == ResolveDomain(n, {}, EmptyMap, disk, dirOrder).value

\* the parents' fresh results in declared order, the separator between them,
\* then the body of n
ParentsThenBody(n) ==
    LET ps == DeclaredList(n, disk, dirOrder) IN
    Join(SEPARATOR, [i \in 1..Len(ps) |-> FreshValue(ps[i])]
                    \o <<LoadDomainFile(n, disk, dirOrder).content>>)

(* C2: on an acyclic set of documents, resolve_domain(name) called on a      *)
(* resolver with an empty cache returns its parents' resolved contents in    *)
(* declared order followed by its own body, joined by "\n\n---\n\n".         *)
C2_FreshComposition ==
    (IsResolve /\ ret.cold /\ Acyclic)
        => (ret.kind = "ok" /\ ret.value = ParentsThenBody(ret.arg))

\* d extends [b, c] was resolved by one call, which cached d and its ancestors
C2_Witness ==
    /\ IsResolve /\ ret.cold /\ Acyclic /\ ret.arg = "d"
    /\ DeclaredList("d", disk, dirOrder) = <<"b", "c">>
    /\ DOMAIN cache = {"d"} \cup Ancestors("d", disk, dirOrder)
    /\ ret.value = <<Heading("b")>> \o SEPARATOR \o <<Heading("c")>> \o SEPARATOR
                   \o <<Heading("d")>>

-----------------------------------------------------------------------------
\* In v, returned for n: the body of n ends v, the body of every ancestor lies
\* before it, and of two parents declared one after the other the resolved
\* content of the first ends before that of the second begins
InOrder(n, v) ==
    LET body == LoadDomainFile(n, disk, dirOrder).content
        start == Len(v) - Len(body) + 1
        ps == DeclaredList(n, disk, dirOrder)
    IN /\ OccursAt(body, v, start)
       /\ \A m \in Ancestors(n, disk, dirOrder) :
            LET t == LoadDomainFile(m, disk, dirOrder).content
            IN \E i \in 1..Len(v) : OccursAt(t, v, i) /\ i + Len(t) <= start
       /\ ~ReachesCycle(n) =>
            \A k \in 1..(Len(ps) - 1) :
              LET x == Composition(ps[k], disk, dirOrder)
                  y == Composition(ps[k + 1], disk, dirOrder)
              IN \E i, j \in 1..Len(v) :
                   /\ OccursAt(x, v, i) /\ OccursAt(y, v, j)
                   /\ i + Len(x) <= j /\ j + Len(y) <= start

(* C3: in a string resolve_domain returns while no document was written      *)
(* since the cache was last empty, every ancestor's text lies before the     *)
(* domain's own body, and for `extends: [X, Y]` X's resolved content lies    *)
(* before Y's.                                                               *)
C3_AncestorsFirst ==
    (IsResolve /\ ret.kind = "ok" /\ fresh) => InOrder(ret.arg, ret.value)

\* C3 as stated: in every string returned
C3_AsStated ==
    (IsResolve /\ ret.kind = "ok") => InOrder(ret.arg, ret.value)

\* c extends [a, b] and b extends a: a, then a and b, then c
C3_Witness ==
    /\ IsResolve /\ ret.kind = "ok" /\ fresh /\ ret.arg = "c"
    /\ DeclaredList("c", disk, dirOrder) = <<"a", "b">>
    /\ DeclaredList("b", disk, dirOrder) = <<"a">>
    /\ InOrder("c", ret.value)

-----------------------------------------------------------------------------
(* C4: the CircularDependencyError of resolve_domain lists the domains of    *)
(* the resolution path in the order they were entered, from the name the     *)
(* call was made with, each the declared parent of the one before, and then  *)
(* the repeated name.                                                        *)
C4_ChainInOrder ==
    (IsResolve /\ ret.kind = "CircularDependencyError") =>
        /\ ret.chain[1] = ret.arg
        /\ \A i \in 1..(Len(ret.chain) - 1) :
             ret.chain[i + 1] \in DeclaredParents(ret.chain[i], disk, dirOrder)

-----------------------------------------------------------------------------
(* C5: on an acyclic graph resolve_domain returns a string and does not      *)
(* raise, also when two parents share an ancestor.                           *)
C5_NoFalseCycle == (IsResolve /\ Acyclic) => ret.kind = "ok"

\* the diamond: d extends [b, c], b and c extend a
C5_Witness ==
    /\ IsResolve /\ ret.arg = "d" /\ ret.kind = "ok"
    /\ DeclaredList("d", disk, dirOrder) = <<"b", "c">>
    /\ DeclaredList("b", disk, dirOrder) = <<"a">>
    /\ DeclaredList("c", disk, dirOrder) = <<"a">>
    /\ DeclaredList("a", disk, dirOrder) = <<>>

-----------------------------------------------------------------------------
\* n/core.md is a document without parents: its heading, or its edited heading
PlainDoc(n, d) ==
    Exists(d, CorePath(n)) /\ d[CorePath(n)] \in {<<Heading(n)>>, <<Edited(n)>>}

(* C6: a resolve_domain(D) made while D has a cache entry returns that       *)
(* entry, whatever D's document has become; one made on an empty cache, for  *)
(* a D without parents, returns the current document and caches it.          *)
C6_StaleUntilCleared ==
    [][ret'.op = "resolve_domain" =>
         LET D == ret'.arg IN
         /\ D \in DOMAIN cache => (ret'.kind = "ok" /\ ret'.value = cache[D])
         /\ (cache = EmptyMap /\ PlainDoc(D, disk)) =>
              /\ ret'.kind = "ok" /\ ret'.value = disk[CorePath(D)]
              /\ D \in DOMAIN cache' /\ cache'[D] = ret'.value]_vars

\* a was resolved, a/core.md was edited, and resolve_domain("a") returned the
\* heading from before the edit
C6_Witness ==
    /\ IsResolve /\ ret.arg = "a" /\ ~fresh
    /\ Exists(disk, CorePath("a")) /\ disk[CorePath("a")] = <<Edited("a")>>
    /\ ret.value = <<Heading("a")>>

-----------------------------------------------------------------------------
(* C7: no resolve_domain, get_inheritance_tree or validate_all_domains call  *)
(* changes or removes an entry the cache holds when the call is made.        *)
C7_EntriesKept ==
    [][ret'.op \in {"resolve_domain", "get_inheritance_tree", "validate_all_domains"}
         => \A n \in DOMAIN cache : n \in DOMAIN cache' /\ cache'[n] = cache[n]]_vars

\* validate_all_domains has gone over a domain whose entry is older than its
\* document, and the entry is still the old one
C7_Witness ==
    /\ ret.op = "validate_all_domains" /\ ret.kind = "ok"
    /\ \E n \in DOMAIN cache \cap DOMAIN imap :
         /\ ~ReachesCycle(n)
         /\ cache[n] # Composition(n, disk, dirOrder)

-----------------------------------------------------------------------------
(* C8: while the documents are unchanged and acyclic, every resolve_domain   *)
(* call returns what a resolver without a cache computes, whatever calls     *)
(* were made before it.                                                      *)
C8_SameAsUncached ==
    (IsResolve /\ Acyclic) =>
        (ret.kind = "ok" /\ ret.value = Composition(ret.arg, disk, dirOrder))

\* a domain with two parents was resolved on a cache that held entries already
C8_Witness ==
    /\ IsResolve /\ Acyclic /\ ~ret.cold
    /\ Len(DeclaredList(ret.arg, disk, dirOrder)) = 2
    /\ Ancestors(ret.arg, disk, dirOrder) \cup {ret.arg} # DOMAIN cache
    /\ ret.value = Composition(ret.arg, disk, dirOrder)

-----------------------------------------------------------------------------
(* C9: resolve_domain raises no exception other than                         *)
(* CircularDependencyError, whatever the documents hold.                     *)
C9_OnlyCircular ==
    IsResolve => ret.kind \in {"ok", "CircularDependencyError"}

-----------------------------------------------------------------------------
\* the text has no leading delimiter, or its metadata block is not valid YAML
NoUsableBlock(text) ==
    \/ ~StartsWithDelim(text)
    \/ /\ Len(SplitDelim2(text)) >= 3
       /\ ~YamlLoad(SplitDelim2(text)[2]).ok

(* C10: a document without a leading delimiter, or whose metadata block      *)
(* fails to parse, is resolved without an exception to its entire text, as   *)
(* a domain with no parents.                                                 *)
C10_WholeTextFallback ==
    (IsResolve /\ ret.cold /\ Exists(disk, CorePath(ret.arg))
       /\ NoUsableBlock(disk[CorePath(ret.arg)]))
      => /\ ret.kind = "ok"
         /\ ret.value = disk[CorePath(ret.arg)]
         /\ cache = (ret.arg :> ret.value)

\* a document whose metadata block is broken YAML came back whole
C10_Witness ==
    /\ IsResolve /\ ret.cold /\ ret.kind = "ok" /\ Exists(disk, CorePath(ret.arg))
    /\ StartsWithDelim(disk[CorePath(ret.arg)])
    /\ Len(SplitDelim2(disk[CorePath(ret.arg)])) >= 3
    /\ ~YamlLoad(SplitDelim2(disk[CorePath(ret.arg)])[2]).ok
    /\ ret.value = disk[CorePath(ret.arg)]

-----------------------------------------------------------------------------
\* no candidate path of the domain exists
Missing(n) == FindDomainFile(n, disk, dirOrder) = NoPath

\* the placeholder bodies of the parents ps, then the body of n
PlaceholdersThenBody(n, ps) ==
    Join(SEPARATOR, [i \in 1..Len(ps) |-> Placeholder(ps[i])]
                    \o <<LoadDomainFile(n, disk, dirOrder).content>>)

(* C11: resolve_domain of a name whose document is not found returns the     *)
(* placeholder, and resolve_domain of a child whose parents are not found    *)
(* returns their placeholders, the separator and the child's own body; it    *)
(* does not raise.                                                           *)
C11_MissingPlaceholder ==
    IsResolve =>
        LET n == ret.arg
            ps == DeclaredList(n, disk, dirOrder)
        IN /\ Missing(n) => (ret.kind = "ok" /\ ret.value = Placeholder(n))
           /\ (~Missing(n) /\ ps # <<>> /\ \A i \in 1..Len(ps) : Missing(ps[i]))
                => (ret.kind = "ok" /\ ret.value = PlaceholdersThenBody(n, ps))

\* b extends a, a has no document
C11_Witness ==
    /\ IsResolve /\ ret.arg = "b" /\ Missing("a")
    /\ DeclaredList("b", disk, dirOrder) = <<"a">>
    /\ ret.value = Placeholder("a") \o SEPARATOR \o <<Heading("b")>>

-----------------------------------------------------------------------------
IsValidate == ret.op = "validate_all_domains"

-----------------------------------------------------------------------------
\* the names of the inheritance map on which resolve_domain, called on the
\* resolver as the call left it, raises CircularDependencyError
RaisingNames ==
    {n \in DOMAIN imap :
        ResolveDomain(n, {}, cache, disk, dirOrder).kind = "CircularDependencyError"}

(* C13: validate_all_domains() does not propagate CircularDependencyError    *)
(* and does not stop at the first one: it returns one message for every      *)
(* domain of the inheritance map whose resolution raises it, in whatever     *)
(* order the domains are gone through.                                       *)
C13_OnePerBrokenDomain ==
    IsValidate =>
        /\ ret.kind = "ok"
        /\ Len(ret.errors) = Cardinality(RaisingNames)

\* three domains of the map were reported by one call
C13_Witness ==
    /\ IsValidate /\ ret.kind = "ok"
    /\ Len(ret.errors) = 3 /\ Cardinality(RaisingNames) = 3

-----------------------------------------------------------------------------
\* the text has a metadata block: a leading delimiter and a second one
HasBlock(text) == StartsWithDelim(text) /\ Len(SplitDelim2(text)) >= 3

\* the text declares no parents: it has no metadata block, or its block is a
\* mapping without the key `extends` or with an empty one
DeclaresNoParents(text) ==
    \/ ~HasBlock(text)
    \/ LET block == SplitDelim2(text)[2] IN
       /\ YamlLoad(block).ok /\ YamlLoad(block).t = "dict"
       /\ LastEntry(block, "extends") \in {YNull, YList(<<>>)}

\* the body of a document: the text without its metadata block and the
\* whitespace around what follows the block, or the whole text
OwnBody(text) ==
    IF HasBlock(text) THEN Strip(SplitDelim2(text)[3]) ELSE text

(* C14: a domain whose document declares no parents resolves to exactly its  *)
(* own body, and that body is what the cache holds for it.                   *)
C14_BodyOnly ==
    (IsResolve /\ Exists(disk, CorePath(ret.arg))
       /\ DeclaresNoParents(disk[CorePath(ret.arg)]))
      => /\ ret.kind = "ok"
         /\ ret.value = OwnBody(disk[CorePath(ret.arg)])
         /\ ret.arg \in DOMAIN cache /\ cache[ret.arg] = ret.value

\* a document with `extends: []` came back as its heading alone
C14_Witness ==
    /\ IsResolve /\ ret.arg = "a" /\ Exists(disk, CorePath("a"))
    /\ disk[CorePath("a")] = MetaDoc(<<ExtendsEmptyListLine>>, <<Heading("a")>>)
    /\ ret.value = <<Heading("a")>>
    /\ cache["a"] = <<Heading("a")>>

-----------------------------------------------------------------------------
IsTree == ret.op = "get_inheritance_tree"

\* the names in a list of the inheritance map
NamesOf(v) == [i \in 1..Len(v.l) |-> v.l[i].s]

(* C15: get_inheritance_tree() returns without raising, cycles or not, a map *)
(* whose keys are the domains with a document that declares `extends`, each  *)
(* mapped to the list of the parents its document names, in declared order,  *)
(* a scalar as a list of one.                                                *)
C15_DirectParentsOnly ==
    IsTree =>
        /\ ret.kind = "ok"
        /\ DOMAIN imap = {n \in Names : DeclaredList(n, disk, dirOrder) # <<>>}
        /\ \A n \in DOMAIN imap :
             imap[n].t = "list" /\ NamesOf(imap[n]) = DeclaredList(n, disk, dirOrder)

\* c extends b, b extends [a, b]: c is mapped to b alone, in a graph with a cycle
C15_Witness ==
    /\ IsTree /\ ret.kind = "ok" /\ DOMAIN imap = {"b", "c"}
    /\ MetaDoc(<<ExtendsScalarLine("b")>>, <<Heading("c")>>) = disk[CorePath("c")]
    /\ NamesOf(imap["c"]) = <<"b">>
    /\ NamesOf(imap["b"]) = <<"a", "b">>

-----------------------------------------------------------------------------
IsFind == ret.op = "_find_domain_file"

\* the files <subdir>/<name>.md of the immediate subdirectories
InSubDirs(n) == {p \in DOMAIN disk : Len(p) = 2 /\ p[2] = n}

(* C16: _find_domain_file(name) returns <root>/<name>/core.md if it exists,  *)
(* otherwise <root>/<name>.md if it exists, otherwise a <subdir>/<name>.md   *)
(* that exists, and None when there is none of them.                         *)
C16_FirstCandidate ==
    IsFind =>
        LET n == ret.arg IN
        /\ ret.kind = "ok"
        /\ IF Exists(disk, <<n, "core">>) THEN ret.value = <<n, "core">>
           ELSE IF Exists(disk, <<n>>) THEN ret.value = <<n>>
           ELSE IF InSubDirs(n) # {} THEN ret.value \in InSubDirs(n)
           ELSE ret.value = NoPath

\* all three kinds of candidate exist for a, and a/core.md was returned
C16_Witness ==
    /\ IsFind /\ ret.arg = "a" /\ ret.value = <<"a", "core">>
    /\ Exists(disk, <<"a">>) /\ Exists(disk, <<"x", "a">>)

-----------------------------------------------------------------------------
\* the line `extends: [X]` for a line `extends: X`, any other line as it is
AsListLine(tok) ==
    IF \E m \in Names : tok = ExtendsScalarLine(m)
    THEN ExtendsOneLine(CHOOSE m \in Names : tok = ExtendsScalarLine(m))
    ELSE tok

\* the text with every scalar `extends` of its metadata block written as a
\* list of one
ListForm(text) ==
    IF HasBlock(text)
    THEN LET close == FindDelim(text, 2)
         IN [i \in 1..Len(text) |-> IF i < close THEN AsListLine(text[i]) ELSE text[i]]
    ELSE text

\* the outcome of the same call on a resolver constructed on the files in
\* list form
OnListForm(n) ==
    ResolveDomain(n, {}, EmptyMap, [p \in DOMAIN disk |-> ListForm(disk[p])], dirOrder)

(* C17: with `extends: X` written as `extends: [X]` in the documents,        *)
(* resolve_domain on a new resolver returns the same string or raises the    *)
(* same error over the same names, and leaves the same cache.                *)
C17_ScalarAsList ==
    (IsResolve /\ ret.cold) =>
        LET r == OnListForm(ret.arg) IN
        /\ r.kind = ret.kind
        /\ r.value = ret.value
        /\ r.cache = cache
        /\ r.kind = "CircularDependencyError" =>
             {ret.chain[i] : i \in 1..Len(ret.chain)} = r.seen \cup {r.at}

\* b extends a in scalar form, and was resolved to a's body and its own
C17_Witness ==
    /\ IsResolve /\ ret.cold /\ ret.arg = "b"
    /\ DOMAIN disk = {CorePath("a"), CorePath("b")}
    /\ disk[CorePath("b")] = MetaDoc(<<ExtendsScalarLine("a")>>, <<Heading("b")>>)
    /\ ListForm(disk[CorePath("b")]) = MetaDoc(<<ExtendsOneLine("a")>>, <<Heading("b")>>)
    /\ ret.value = <<Heading("a")>> \o SEPARATOR \o <<Heading("b")>>
    /\ DOMAIN cache = {"a", "b"}

-----------------------------------------------------------------------------
(* Markers of a text, read from the left with names taken whole: a marker    *)
(* is a "%" that no "%" precedes, a domain name, and a "%" and a section     *)
(* name if a "%" follows the domain.  It is well-formed if the domain is not *)
(* run into by a digit, the section is not empty and no "%" follows it.      *)

IsShorthand == ret.op = "resolve_shorthand_syntax"

MarkerAt(s, i) ==
    /\ s[i] = "%"
    /\ (i = 1 \/ s[i - 1] # "%")
    /\ RunLen(s, i + 1, DomainChars) >= 1

DomainEnd(s, i) == i + RunLen(s, i + 1, DomainChars) + 1

SectionFollows(s, i) == DomainEnd(s, i) <= Len(s) /\ s[DomainEnd(s, i)] = "%"

MarkerEnd(s, i) ==
    IF SectionFollows(s, i)
    THEN DomainEnd(s, i) + RunLen(s, DomainEnd(s, i) + 1, SectionChars) + 1
    ELSE DomainEnd(s, i)

WellFormedAt(s, i) ==
    /\ MarkerAt(s, i)
    /\ SectionFollows(s, i) => MarkerEnd(s, i) > DomainEnd(s, i) + 1
    /\ MarkerEnd(s, i) > Len(s) \/ s[MarkerEnd(s, i)] \notin WordChars \cup {"%"}

MalformedAt(s, i) == MarkerAt(s, i) /\ ~WellFormedAt(s, i)

TargetOf(s, i) ==
    LET domain == SubSeq(s, i + 1, DomainEnd(s, i) - 1)
    IN IF SectionFollows(s, i)
       THEN <<"@", "d", "o", "m", "a", "i", "n", "s", "/">> \o domain \o <<"/">>
            \o SubSeq(s, DomainEnd(s, i) + 1, MarkerEnd(s, i) - 1) \o <<".", "m", "d">>
       ELSE <<"@", "d", "o", "m", "a", "i", "n", "s", "/">> \o domain
            \o <<"/", "c", "o", "r", "e", ".", "m", "d">>

\* s from position i on, each well-formed marker replaced by its target and
\* every other character kept
RECURSIVE Rewritten(_, _)
Rewritten(s, i) ==
    IF i > Len(s) THEN <<>>
    ELSE IF WellFormedAt(s, i) THEN TargetOf(s, i) \o Rewritten(s, MarkerEnd(s, i))
    ELSE <<s[i]>> \o Rewritten(s, i + 1)

C19_MalformedKept ==
    (IsShorthand /\ \A i \in 1..Len(input) : ~WellFormedAt(input, i))
        => ret.value = input

-----------------------------------------------------------------------------
(* The learning log as a list of entries *)

IsRemove == ret.op = "remove"

\* the N of `remove N`; 1 when it is left out
CountOf(args) == IF args = <<>> THEN 1 ELSE args[1]

\* the entries a log file holds, none when there is no file
EntriesOf(f) == IF f.exists THEN SafeLoad(f.doc) ELSE <<>>

(* C20: `remove N` on a log of L >= N >= 1 entries leaves the first L - N     *)
(* entries, unchanged and in their order, in the log file; N is 1 when it is  *)
(* left out.                                                                  *)
C20_LastNRemoved ==
    (/\ IsRemove
     /\ CountOf(ret.arg) >= 1
     /\ CountOf(ret.arg) <= Len(EntriesOf(prev.logFile)))
        => /\ logFile.exists
           /\ EntriesOf(logFile)
                = SubSeq(EntriesOf(prev.logFile), 1,
                         Len(EntriesOf(prev.logFile)) - CountOf(ret.arg))
           /\ logFile.doc
                = SubSeq(prev.logFile.doc, 1,
                         Len(prev.logFile.doc) - CountOf(ret.arg))

C20_Witness ==
    /\ IsRemove
    /\ ret.arg = <<2>>
    /\ Len(EntriesOf(prev.logFile)) = 3
    /\ EntriesOf(prev.logFile)[1] # EntriesOf(prev.logFile)[3]
    /\ EntriesOf(logFile) = <<EntriesOf(prev.logFile)[1]>>

-----------------------------------------------------------------------------
(* C21: `remove N` with N greater than the number of entries of the log ends *)
(* without an error and leaves a log without entries: an empty list in the   *)
(* log file when the log had entries.                                        *)
C21_ExcessRemovesAll ==
    (IsRemove /\ CountOf(ret.arg) > Len(EntriesOf(prev.logFile)))
        => /\ ret.kind = "ok"
           /\ EntriesOf(logFile) = <<>>
           /\ EntriesOf(prev.logFile) # <<>> => (logFile.exists /\ logFile.doc = <<>>)

C21_Witness ==
    /\ IsRemove
    /\ Len(EntriesOf(prev.logFile)) = 2
    /\ ret.arg = <<3>>
    /\ logFile = [exists |-> TRUE, doc |-> <<>>]

-----------------------------------------------------------------------------
IsAdd == ret.op = "add"

\* the file name of the log entry of `add ... --file f`
SuffixedMd(f) == IF f = "core" THEN "core.md" ELSE f

\* the entry `add text --domain domain --file f --category category` logs
\* when called at second t
EntryOfAdd(args, t) ==
    [timestamp |-> Str(Stamp(t)), domain |-> Str(args[2]),
     file |-> Str(SuffixedMd(args[3])), category |-> Str(args[4]),
     pattern |-> Str(args[1]),
     target_file |-> Str("domains/" \o args[2] \o "/" \o SuffixedMd(args[3]))]

(* C22: after an `add` the learning log holds the entries it held before,    *)
(* unchanged and in order, and after them one entry with the timestamp, the  *)
(* domain, the file name with its `.md` suffix, the category, the text and   *)
(* the target file of the call; the timestamp is of a second that has        *)
(* passed.                                                                   *)
C22_OneEntryAppended ==
    IsAdd => /\ logFile.exists
             /\ \E t \in 1..now :
                    EntriesOf(logFile)
                      = EntriesOf(prev.logFile) \o <<EntryOfAdd(ret.arg, t)>>

C22_Witness ==
    /\ IsAdd
    /\ ret.arg[3] = "core"
    /\ Len(EntriesOf(prev.logFile)) = 2
    /\ Len(EntriesOf(logFile)) = 3
    /\ EntriesOf(logFile)[3].file = Str("core.md")
    /\ EntriesOf(logFile)[3] # EntriesOf(logFile)[1]

-----------------------------------------------------------------------------
(* C23: `remove N` with N <= 0 on a log that has entries answers "Count must *)
(* be positive" and leaves the log file and every markdown file as they      *)
(* were.                                                                     *)
C23_NonPositiveRejected ==
    (IsRemove /\ CountOf(ret.arg) <= 0 /\ EntriesOf(prev.logFile) # <<>>)
        => /\ ret.value = "Count must be positive"
           /\ logFile = prev.logFile
           /\ files = prev.files

C23_Witness ==
    /\ IsRemove
    /\ ret.arg = <<0>>
    /\ Len(EntriesOf(logFile)) = 2
    /\ ret.value = "Count must be positive"
    /\ DOMAIN files = {"domains/git/core.md", "domains/python/core.md"}

-----------------------------------------------------------------------------
\* what a resolve_domain(n) made now would end with
KindNow(n) == ResolveDomain(n, {}, cache, disk, dirOrder).kind

(* C24: while the documents stay as they are, no domain that lies on a cycle *)
(* or inherits from one has a cache entry; a resolve_domain that raised      *)
(* CircularDependencyError was made on such a domain, and a resolve_domain   *)
(* of such a domain raises CircularDependencyError whenever it is made.      *)
C24_NoCyclicEntry ==
    /\ \A n \in DOMAIN cache : ~ReachesCycle(n)
    /\ (IsResolve /\ ret.kind = "CircularDependencyError") => ReachesCycle(ret.arg)
    /\ \A n \in SpecNames :
          ReachesCycle(n) => KindNow(n) = "CircularDependencyError"

\* a failed call left its acyclic first parent in the cache and fails again
C24_Witness ==
    /\ IsResolve /\ ret.kind = "CircularDependencyError"
    /\ ret.arg = "c"
    /\ DeclaredList("c", disk, dirOrder) = <<"a", "b">>
    /\ DOMAIN cache = {"a"}
    /\ OwnAncestor("b")
    /\ KindNow("c") = "CircularDependencyError"

-----------------------------------------------------------------------------
\* the parents' cache entries in declared order, then the body of n
FromCachedParents(n) ==
    LET ps == DeclaredList(n, disk, dirOrder) IN
    Join(SEPARATOR, [i \in 1..Len(ps) |-> cache[ps[i]]]
                    \o <<LoadDomainFile(n, disk, dirOrder).content>>)

(* C25: while the documents stay as they are, after any resolve_domain       *)
(* calls, failed ones included, every cached name has all its declared       *)
(* parents cached, and its entry is its parents' entries in declared order   *)
(* and then its own body, joined by the separator.                           *)
C25_CacheClosed ==
    \A n \in DOMAIN cache :
        /\ DeclaredParents(n, disk, dirOrder) \subseteq DOMAIN cache
        /\ cache[n] = FromCachedParents(n)

\* after a failed call the cache holds a child and its parent
C25_Witness ==
    /\ IsResolve /\ ret.kind = "CircularDependencyError"
    /\ \E n \in DOMAIN cache :
          \E m \in DeclaredParents(n, disk, dirOrder) :
            cache[n] = cache[m] \o SEPARATOR \o <<Heading(n)>>

-----------------------------------------------------------------------------
(* C26: a resolve_domain(C) made while C has no cache entry and every parent *)
(* C's document declares has one returns the parents' entries in declared    *)
(* order, the separator and C's body as it is on disk now, whatever the      *)
(* parents' documents have become; it does not raise.                        *)
C26_CachedParentWins ==
    [][(/\ ret'.op = "resolve_domain"
        /\ disk' = disk
        /\ ret'.arg \notin DOMAIN cache
        /\ DeclaredList(ret'.arg, disk, dirOrder) # <<>>
        /\ DeclaredParents(ret'.arg, disk, dirOrder) \subseteq DOMAIN cache)
       => (ret'.kind = "ok" /\ ret'.value = FromCachedParents(ret'.arg))]_vars

\* b was resolved, b/core.md was changed to extend a, and resolve_domain("a"),
\* a extending b, returned b's old entry and a's body
C26_Witness ==
    /\ IsResolve /\ ret.arg = "a" /\ ret.kind = "ok"
    /\ DeclaredList("a", disk, dirOrder) = <<"b">>
    /\ DeclaredList("b", disk, dirOrder) = <<"a">>
    /\ ret.value = <<Heading("b")>> \o SEPARATOR \o <<Heading("a")>>

-----------------------------------------------------------------------------
\* m is the map of the parents the documents on disk declare
MapOfDisk(m) ==
    /\ DOMAIN m = {n \in Names : DeclaredList(n, disk, dirOrder) # <<>>}
    /\ \A n \in DOMAIN m : NamesOf(m[n]) = DeclaredList(n, disk, dirOrder)

(* C27: a get_inheritance_tree() or validate_all_domains() call that finds   *)
(* the inheritance map non-empty leaves it as it is, whatever the documents  *)
(* on disk have become, and validate_all_domains resolves the names of that  *)
(* map; a call that finds the map empty builds it from the documents on disk *)
(* at that moment.                                                           *)
C27_MapMemoized ==
    [][ret'.op \in {"get_inheritance_tree", "validate_all_domains"} =>
         /\ imap # EmptyMap => imap' = imap
         /\ imap = EmptyMap => MapOfDisk(imap')
         /\ ret'.op = "validate_all_domains" =>
              /\ Len(ret'.errors) <= Cardinality(DOMAIN imap')
              /\ \A n \in DOMAIN imap' :
                    \/ n \in DOMAIN cache'
                    \/ \E i \in 1..Len(ret'.errors) : n \in ret'.errors[i].seen]_vars

\* the map was built when a alone declared a parent; c/core.md was then
\* written with `extends: c`, and validate_all_domains went over a alone
C27_Witness ==
    /\ IsValidate /\ ~MapOfDisk(imap)
    /\ DOMAIN imap = {"a"} /\ NamesOf(imap["a"]) = <<"b">>
    /\ DeclaredList("c", disk, dirOrder) = <<"c">>
    /\ ret.errors = <<>>
    /\ "c" \notin DOMAIN cache

-----------------------------------------------------------------------------
\* the number of inheritance paths from n up to m in the documents on disk
\* (defined where n reaches no cycle)
RECURSIVE PathCount(_, _)
PathCount(n, m) ==
    IF n = m THEN 1
    ELSE LET ps == DeclaredList(n, disk, dirOrder)
             RECURSIVE Sum(_)
             Sum(i) == IF i > Len(ps) THEN 0 ELSE PathCount(ps[i], m) + Sum(i + 1)
         IN Sum(1)

\* how often the line t occurs in the text v
Occurrences(t, v) == Cardinality({i \in 1..Len(v) : v[i] = t})

(* C28: in what resolve_domain returns for a domain that reaches no cycle,   *)
(* the body of every domain occurs once for each inheritance path that       *)
(* leads from the resolved domain to it: an ancestor shared by two parents   *)
(* occurs twice.                                                             *)
C28_OncePerPath ==
    (IsResolve /\ ~ReachesCycle(ret.arg)) =>
        /\ ret.kind = "ok"
        /\ \A m \in Names : Occurrences(Heading(m), ret.value) = PathCount(ret.arg, m)

\* d extends [b, c], b and c extend a: a's body is in the result twice
C28_Witness ==
    /\ IsResolve /\ ret.arg = "d" /\ ret.kind = "ok"
    /\ DeclaredList("d", disk, dirOrder) = <<"b", "c">>
    /\ DeclaredList("b", disk, dirOrder) = <<"a">>
    /\ DeclaredList("c", disk, dirOrder) = <<"a">>
    /\ Occurrences(Heading("a"), ret.value) = 2
    /\ Occurrences(Heading("d"), ret.value) = 1

-----------------------------------------------------------------------------
(* C29: resolve_domain terminates for every finite set of documents, cyclic  *)
(* or not, either returning a string or raising CircularDependencyError, and *)
(* the depth of its recursion never exceeds the number of distinct domain    *)
(* names plus one.  As a property of every state: the calls under way are at *)
(* most one more than the names, and a call that has finished returned a     *)
(* string or raised CircularDependencyError.                                 *)

DepthOfRecursion == Len(stack)

C29_StringOrCircularWithinDepth ==
    /\ DepthOfRecursion <= Cardinality(SpecNames) + 1
    /\ (stack = <<>> /\ ret.op = "resolve_domain")
          => ret.kind \in {"ok", "CircularDependencyError"}

-----------------------------------------------------------------------------
(* C30: `add` followed immediately by `remove` (count 1) is a round trip:    *)
(* the learning log returns to its previous list of entries and a target     *)
(* file that already existed returns to its previous content, including when *)
(* the log already holds an entry with the same timestamp, category and text *)
(* for that file.  On the step of a `remove` of one entry that follows an    *)
(* `add`: the entries of the log and the content of every file there was     *)
(* before the `add` are afterwards what they were before the `add`.          *)
C30_AddRemoveRoundTrip ==
    [][(/\ IsAdd
        /\ ret'.op = "remove"
        /\ CountOf(ret'.arg) = 1)
          => /\ EntriesOf(logFile') = EntriesOf(prev.logFile)
             /\ \A p \in DOMAIN prev.files : files'[p] = prev.files[p]]_vars

=============================================================================
